---- MODULE Spec2Model ----
(***************************************************************************)
(* Particle-filter SLAM estimator of MappingRover2                         *)
(* (raspberry/particle_slam.cpp): the scan-line accumulator SScanLine, the *)
(* particle SParticle and the filter CParticleSLAM with its two entry      *)
(* points receivedSensorData and getMap.                                   *)
(*                                                                         *)
(* The world is one-dimensional: a point is an integer, a pose is a point  *)
(* and a yaw.  A cv::Mat is a handle to a reference-counted pixel buffer:  *)
(* the particles hold buffer ids, and the pixel data live in the two heaps *)
(* matdata (likelihood fields) and griddata (greyscale occupancy maps).    *)
(* A greyscale map is represented by the set of its cells whose value is   *)
(* 0, which is all that cv::threshold(.., 0.0, ..) and the distance        *)
(* transform of particle_slam.cpp:83-85 observe of it; a likelihood field  *)
(* by the set of cells where it is 0, or as the field that is 0 everywhere.*)
(***************************************************************************)
EXTENDS Integers, Sequences, FiniteSets

\* ---------------------------------------------------------------- bounds
MaxParticles == 2     \* the filter is constructed with 1..MaxParticles particles
MaxResample  == 4     \* particles when the resampling pass is run on its own
MaxAngle     == 1     \* bearings are 0..MaxAngle
MaxDistance  == 1     \* ranges are 1..MaxDistance
MaxTicks     == 1     \* odometry advance of one sample is 0..MaxTicks
MaxLine      == 2     \* samples buffered in one scan line of the filter
MaxScan      == 3     \* samples buffered in a scan line used on its own
MaxCycles    == 2     \* update cycles (calls that return true)
MaxCyclesLong == 1    \* update cycles when the lines may hold MaxScan samples
MaxWeight    == 1     \* importance weights are 0..MaxWeight
MaxNoise     == 1     \* noise of the motion model is 0..MaxNoise
FarDistance  == 1000  \* a range that ends outside the map from any pose reached
MaxReads     == 2     \* log lines of the sensor loop that are counted

\* ------------------------------------------------------ program constants
GridCells == 400      \* extent of the likelihood field and the occupancy grid
nScale    == 5        \* world units per grid cell

Indeterminate == -1   \* value of a double that no constructor initialised

Angles    == 0..MaxAngle
Distances == 1..MaxDistance
Ticks     == 0..MaxTicks
Weights   == 0..MaxWeight
Noises    == 0..MaxNoise
Cells     == 0..(GridCells - 1)

\* SSensorData: bearing, range and odometry of one sample
SSensorData == [m_nAngle : Angles, m_nDistance : Distances, m_anEncoderTicks : Ticks]

VARIABLES
    cParticles,     \* constructor argument of CParticleSLAM
    m_vecparticle,  \* the population: sequence of SParticle
    vecbuf,         \* identity of the storage m_vecparticle owns
    m_itparticle,   \* iterator to the best particle: [buf, pos]
    m_scanline,     \* SScanLine::m_vecscan
    m_vecpose,      \* trajectory of best poses
    matdata,        \* pixel data of the likelihood fields, by buffer id
    griddata,       \* pixel data of the greyscale occupancy maps, by buffer id
    call,           \* the most recent call and what it did
    cTrue,          \* number of receivedSensorData calls that returned true
    fault,          \* "none", or why the process stopped: "assert", "range",
                    \* "extent"
    rover           \* the threads of main(): see RoverStart

vars == <<cParticles, m_vecparticle, vecbuf, m_itparticle, m_scanline, m_vecpose,
          matdata, griddata, call, cTrue, fault, rover>>

\* the estimator's own state (everything but the bookkeeping of the calls)
estimator == <<m_vecparticle, vecbuf, m_itparticle, m_scanline, m_vecpose,
               matdata, griddata>>

\* --------------------------------------------------------------- geometry
PoseZero == [m_pt |-> 0, m_fYaw |-> 0]

\* pose of a sample from the pose of the previous one and its odometry
UpdatePose(pose, data) ==
    [m_pt |-> pose.m_pt + data.m_anEncoderTicks, m_fYaw |-> pose.m_fYaw]

\* motion model with the noise drawn for this particle
sample_motion_model(pose, translation, rotation, noise) ==
    [m_pt |-> pose.m_pt + translation + noise, m_fYaw |-> pose.m_fYaw + rotation]

\* COccupancyGrid::toGridCoordinates: scale and centre offset
toGridCoordinates(pt) == (pt \div nScale) + (GridCells \div 2)

\* the cells of the grid from a to b, either way round
Between(a, b) == ((IF a <= b THEN a ELSE b)..(IF a <= b THEN b ELSE a)) \cap Cells

\* ---------------------------------------------------------------- SScanLine
CompareAngle(lhs, rhs) == IF lhs < rhs THEN -1 ELSE IF rhs < lhs THEN 1 ELSE 0

SScan(pose, data) ==
    [m_pose |-> pose, m_nAngle |-> data.m_nAngle, m_nDistance |-> data.m_nDistance]

\* add with the case "no direction yet" (nCompare==0) left out of line 27
AddAcceptsNoZeroCase(vecscan, data) ==
    IF vecscan = <<>> THEN TRUE
    ELSE LET nCompare == CompareAngle(vecscan[1].m_nAngle, vecscan[Len(vecscan)].m_nAngle)
             nCompareOther == CompareAngle(vecscan[Len(vecscan)].m_nAngle, data.m_nAngle)
         IN  nCompareOther = 0 \/ nCompare = nCompareOther

\* add with the new bearing compared against the front of the line, not its back
AddAcceptsFromFront(vecscan, data) ==
    IF vecscan = <<>> THEN TRUE
    ELSE LET nCompare == CompareAngle(vecscan[1].m_nAngle, vecscan[Len(vecscan)].m_nAngle)
             nCompareOther == CompareAngle(vecscan[1].m_nAngle, data.m_nAngle)
         IN  nCompare = 0 \/ nCompareOther = 0 \/ nCompare = nCompareOther

\* SScanLine::add accepts the sample (returns true)
AddAccepts(vecscan, data) ==
    IF vecscan = <<>> THEN TRUE
    ELSE LET nCompare == CompareAngle(vecscan[1].m_nAngle, vecscan[Len(vecscan)].m_nAngle)
             nCompareOther == CompareAngle(vecscan[Len(vecscan)].m_nAngle, data.m_nAngle)
         IN  nCompare = 0 \/ nCompareOther = 0 \/ nCompare = nCompareOther

\* SScanLine::add: the buffer after the call
ScanLineAdd(vecscan, data) ==
    IF vecscan = <<>>
    THEN <<SScan(UpdatePose(PoseZero, data), data)>>
    ELSE IF AddAccepts(vecscan, data)
         THEN Append(vecscan, SScan(UpdatePose(vecscan[Len(vecscan)].m_pose, data), data))
         ELSE vecscan

\* the seeding of the next line with clear() forgotten
SeedWithoutClear(vecscan, data) == ScanLineAdd(vecscan, data)

\* m_scanline.clear(); m_scanline.add(data);  (lines 144-145)
ClearAndSeed(vecscan, data) == ScanLineAdd(<<>>, data)

translation(vecscan) == vecscan[Len(vecscan)].m_pose.m_pt
rotation(vecscan)    == vecscan[Len(vecscan)].m_pose.m_fYaw

\* ---------------------------------------------------------------- SParticle
\* SParticle::SParticle(): zero pose, likelihood field all 0, a fresh grid;
\* m_fWeight is not initialised
SParticleNew(id) ==
    [m_pose |-> PoseZero, m_fWeight |-> Indeterminate,
     m_matLikelihood |-> id, m_occgrid |-> id]

\* the likelihood field copied without clone(): a second handle to the buffer
MatShare(mat, fresh) == mat

\* cv::Mat::clone(): a handle to a new buffer holding a copy of the pixels
MatClone(mat, fresh) == fresh

\* copy constructor of COccupancyGrid: the copy owns its own maps
COccupancyGridCopy(occgrid, fresh) == fresh

\* SParticle::SParticle(SParticle const&): pose, cloned likelihood field and
\* copied grid; m_fWeight is not in the initialiser list
SParticleCopy(p, fresh) ==
    [m_pose |-> p.m_pose, m_fWeight |-> Indeterminate,
     m_matLikelihood |-> MatClone(p.m_matLikelihood, fresh),
     m_occgrid |-> COccupancyGridCopy(p.m_occgrid, fresh)]

\* SScanLine::ForEachScan: the pose of each scan seen from the particle's pose
ScanPose(pose, scan) ==
    [m_pt |-> pose.m_pt + scan.m_pose.m_pt, m_fYaw |-> pose.m_fYaw + scan.m_pose.m_fYaw]

\* COccupancyGrid::update on the greyscale map: the cells of the ray short of
\* the end point become free, the end point becomes occupied (value 0); cells
\* outside the map are left out
OccGridUpdate(black, poseScan, nDistance) ==
    LET ptnFrom == toGridCoordinates(poseScan.m_pt)
        ptnTo   == toGridCoordinates(poseScan.m_pt + nDistance)
    IN  (black \ Between(ptnFrom, ptnTo)) \cup ({ptnTo} \cap Cells)

RECURSIVE OccGridUpdateAll(_, _, _, _)
OccGridUpdateAll(black, pose, vecscan, k) ==
    IF k > Len(vecscan) THEN black
    ELSE OccGridUpdateAll(
            OccGridUpdate(black, ScanPose(pose, vecscan[k]), vecscan[k].m_nDistance),
            pose, vecscan, k + 1)

\* cv::threshold at 0.0 followed by cv::distanceTransform: the field is 0
\* exactly on the cells whose greyscale value is 0
DistanceTransform(black) == [scalar0 |-> FALSE, zero |-> black]

\* cv::Mat(400, 400, CV_32FC1, cv::Scalar(0)): the field that is 0 everywhere
MatScalar0 == [scalar0 |-> TRUE, zero |-> {}]

\* m_matLikelihood.at<float>(ptn.y, ptn.x) is 0
MatAtIsZero(lik, ptn) == lik.scalar0 \/ ptn \in lik.zero

\* the cells the lambda of lines 68-71 is called for: the end point of every
\* scan of the line, projected from the pose of the particle
LookupCells(pose, vecscan) ==
    {toGridCoordinates(ScanPose(pose, vecscan[k]).m_pt + vecscan[k].m_nDistance)
        : k \in 1..Len(vecscan)}

\* the cells outside the 400 x 400 field that m_matLikelihood.at<float> is
\* asked for in the update of the particles vec (at their new poses): line 70
\* has no range check
OutsideCells(vec, vecscan) ==
    UNION {LookupCells(vec[k].m_pose, vecscan) \ Cells : k \in 1..Len(vec)}

\* measurement_model_map: the aggregation is supplied from outside; w is its value
measurement_model_map(pose, vecscan, lik, w) == w

\* SParticle::update of the particle p on the heaps mat and grid, with the
\* noise and the measurement value drawn for it
SParticleUpdate(p, vecscan, noise, w, mat, grid) ==
    LET pose  == sample_motion_model(p.m_pose, translation(vecscan), rotation(vecscan), noise)
        fW    == measurement_model_map(pose, vecscan, mat[p.m_matLikelihood], w)
        black == OccGridUpdateAll(grid[p.m_occgrid], pose, vecscan, 1)
        grid2 == [grid EXCEPT ![p.m_occgrid] = black]
    IN  [p    |-> [p EXCEPT !.m_pose = pose, !.m_fWeight = fW],
         grid |-> grid2,
         mat  |-> [mat EXCEPT ![p.m_matLikelihood] = DistanceTransform(grid2[p.m_occgrid])]]

\* boost::for_each(m_vecparticle, update): particles k.. in order
RECURSIVE UpdateParticles(_, _, _, _, _, _, _)
UpdateParticles(vec, vecscan, noise, w, mat, grid, k) ==
    IF k > Len(vec) THEN [vec |-> vec, mat |-> mat, grid |-> grid]
    ELSE LET u == SParticleUpdate(vec[k], vecscan, noise[k], w[k], mat, grid)
         IN  UpdateParticles([vec EXCEPT ![k] = u.p], vecscan, noise, w, u.mat, u.grid, k + 1)

\* ------------------------------------------------------------------- main()
\* the characters std::getchar() delivers: the five keys of the switch of
\* lines 70-76 and any other character
Keys == {"w", "a", "s", "d", "x", "other"}

\* the command the switch sends for a key: lines 71-75
KeyCommand(key) ==
    CASE key = "w" -> "forward"
      [] key = "a" -> "left_turn"
      [] key = "s" -> "backward"
      [] key = "d" -> "right_turn"
      [] key = "x" -> "stop"
      [] OTHER     -> "none"

\* main() with the command loop launched before the connect command is sent
MainThenAsyncFirst(stmt) ==
    CASE stmt = "reset"   -> "sleep"
      [] stmt = "sleep"   -> "async"
      [] stmt = "async"   -> "connect"
      [] stmt = "connect" -> "test"

\* the statement of main() that follows stmt: lines 59-82
MainThen(stmt) ==
    CASE stmt = "reset"   -> "sleep"
      [] stmt = "sleep"   -> "connect"
      [] stmt = "connect" -> "async"
      [] stmt = "async"   -> "test"

\* a sensor loop that does not look at the flag
SensorLoopStale(bRunning) == TRUE

\* while(bRunning): line 82
SensorLoopTest(bRunning) == bRunning

\* a counter that stops counting at MaxReads
Counted(c) == IF c < MaxReads THEN c + 1 ELSE c

\* main() at line 59, the serial port and the log being open.  pcMain and pcCmd
\* are the statements the main thread and the command loop are at, writing
\* holds the boost::asio::write calls in flight, cLogs counts the lines logged
\* and cLogsStopped those logged after bRunning was cleared
RoverStart ==
    [pcMain |-> "reset", pcCmd |-> "none", key |-> "other", bRunning |-> TRUE,
     writing |-> {}, cLogs |-> 0, cLogsStopped |-> 0]

\* ------------------------------------------------------------ CParticleSLAM
\* Weights are integers and the random offset r is a multiple of
\* 1/(RScale * N), so the loop of lines 127-135 is computed on integers: c and
\* u stand multiplied by RScale * N.  With integer weights the comparison c < u
\* only depends on r lying on or strictly between multiples of 1/N, and
\* RScale = 2 produces both.
RScale == 2

RECURSIVE SumWeights(_, _)
SumWeights(w, k) == IF k = 0 THEN 0 ELSE SumWeights(w, k - 1) + w[k]

\* fWeightTotal of lines 107-110
fWeightTotal(w) == SumWeights(w, Len(w))

\* std::uniform_real_distribution<double>(0.0, fStepSize): the offsets in
\* [0, fStepSize), and 0 when fStepSize is 0
ROffsets(w) ==
    IF fWeightTotal(w) = 0 THEN {0} ELSE 0..(RScale * fWeightTotal(w) - 1)

\* the loop of lines 129-132 with c<=u for c<u
RECURSIVE AdvanceLessEq(_, _, _, _)
AdvanceLessEq(w, i, c, u) ==
    IF c <= u
    THEN IF i + 1 > Len(w) THEN [i |-> i + 1, c |-> c]
         ELSE AdvanceLessEq(w, i + 1, c + RScale * Len(w) * w[i + 1], u)
    ELSE [i |-> i, c |-> c]

\* the loop adding the weight under the pointer before it moves the pointer
RECURSIVE AdvanceStaleWeight(_, _, _, _)
AdvanceStaleWeight(w, i, c, u) ==
    IF c < u
    THEN IF i + 1 > Len(w) THEN [i |-> i + 1, c |-> c]
         ELSE AdvanceStaleWeight(w, i + 1, c + RScale * Len(w) * w[i], u)
    ELSE [i |-> i, c |-> c]

\* while(c<u) { ++i; c += m_vecparticle[i].m_fWeight; }   (i counts from 1 here;
\* i = Len(w) + 1 is the read past the end of the population)
RECURSIVE Advance(_, _, _, _)
Advance(w, i, c, u) ==
    IF c < u
    THEN IF i + 1 > Len(w) THEN [i |-> i + 1, c |-> c]
         ELSE Advance(w, i + 1, c + RScale * Len(w) * w[i + 1], u)
    ELSE [i |-> i, c |-> c]

\* for(int i = 0, m = 0; m<m_vecparticle.size(); ++m): the indices sampled for
\* m.. with the pointer at i and the cumulated weight c
RECURSIVE SampleFrom(_, _, _, _, _)
SampleFrom(w, r, m, i, c) ==
    IF m >= Len(w) \/ i > Len(w) THEN <<>>
    ELSE LET u == r + m * RScale * fWeightTotal(w)
             a == Advance(w, i, c, u)
         IN  <<a.i>> \o SampleFrom(w, r, m + 1, a.i, a.c)

\* the sampling loop started at m = 1 instead of m = 0
SampleIndicesFromOne(w, r) == SampleFrom(w, r, 1, 1, RScale * Len(w) * w[1])

\* the cumulated weight started at 0 instead of the weight of the first particle
SampleIndicesFromZero(w, r) == SampleFrom(w, r, 0, 1, 0)

\* the indices logged as "Sample particle i" for the weights w and the offset r
SampleIndices(w, r) == SampleFrom(w, r, 0, 1, RScale * Len(w) * w[1])

\* the new population filled with the particle at the position m instead of
\* the particle at the sampled index
ResampledByPosition(vec, sel) == [m \in 1..Len(sel) |-> SParticleCopy(vec[m], m)]

\* vecparticleNew of lines 125-135
ResampledParticles(vec, sel) == [m \in 1..Len(sel) |-> SParticleCopy(vec[sel[m]], m)]

\* pixel data after the copies: a buffer made for the copy m holds the pixels
\* of the buffer it was copied from, any other buffer is as it was
CopiedData(data, vecNew, vecOld, sel, field) ==
    [id \in DOMAIN data |->
        IF id <= Len(vecNew) /\ vecNew[id][field] = id
        THEN data[vecOld[sel[id]][field]] ELSE data[id]]

\* boost::max_element over m_fWeight: the first position of the largest weight,
\* any position when a weight that is compared was never set
MaxElement(vec) ==
    IF \E k \in 1..Len(vec) : vec[k].m_fWeight = Indeterminate
    THEN 1..Len(vec)
    ELSE {k \in 1..Len(vec) :
            /\ \A j \in 1..Len(vec) : vec[j].m_fWeight <= vec[k].m_fWeight
            /\ \A j \in 1..(k - 1) : vec[j].m_fWeight < vec[k].m_fWeight}

\* max_element run before std::swap: the iterator stays with the old storage
MaxThenSwap(buf, pos) == [vecbuf |-> buf + 1, it |-> [buf |-> buf, pos |-> pos]]

\* the trajectory assigned instead of appended to
TrajectoryReplace(vecpose, pose) == <<pose>>

\* m_vecpose.emplace_back(m_itparticle->m_pose): line 142
TrajectoryAppend(vecpose, pose) == Append(vecpose, pose)

\* the storage and the iterator after lines 137-141: std::swap hands the
\* storage of vecparticleNew to m_vecparticle, then max_element runs on it
SwapThenMax(buf, pos) == [vecbuf |-> buf + 1, it |-> [buf |-> buf + 1, pos |-> pos]]

End(buf, vec) == [buf |-> buf, pos |-> Len(vec) + 1]

NoCall == [op |-> "construct", ret |-> FALSE,
           data |-> [m_nAngle |-> 0, m_nDistance |-> 1, m_anEncoderTicks |-> 0],
           line |-> <<>>, weights |-> <<>>, r |-> 0, sel |-> <<>>, updated |-> <<>>,
           image |-> {}, presel |-> <<>>, outside |-> {}]

\* the indices sampled by the latest update cycle before the call being made
PreSel == IF call.op = "receivedSensorData" /\ call.ret THEN call.sel ELSE call.presel

\* the record of a call that is not an update cycle
Called(op) == [NoCall EXCEPT !.op = op, !.presel = PreSel]

\* CParticleSLAM::CParticleSLAM(cParticles) with cParticles = n
ConstructCount(n) ==
    /\ cParticles = n
    /\ m_vecparticle = [k \in 1..cParticles |-> SParticleNew(k)]
    /\ vecbuf = 0
    /\ m_itparticle = End(0, m_vecparticle)
    /\ m_scanline = <<>>
    /\ m_vecpose = <<>>
    /\ matdata = [id \in 1..cParticles |-> MatScalar0]
    /\ griddata = [id \in 1..cParticles |-> {}]
    /\ call = NoCall
    /\ cTrue = 0
    /\ fault = "none"
    /\ rover = RoverStart

\* CParticleSLAM::CParticleSLAM(cParticles), cParticles in 1..maxParticles
Construct(maxParticles) == \E n \in 1..maxParticles : ConstructCount(n)

Init == Construct(MaxParticles)

\* receivedSensorData(data) when SScanLine::add takes the sample: lines 99, 148
Accept(data, maxLine) ==
    /\ fault = "none"
    /\ AddAccepts(m_scanline, data)
    /\ Len(m_scanline) < maxLine
    /\ m_scanline' = ScanLineAdd(m_scanline, data)
    /\ call' = [Called("receivedSensorData") EXCEPT !.data = data, !.line = m_scanline]
    /\ UNCHANGED <<rover, cParticles, m_vecparticle, vecbuf, m_itparticle, m_vecpose,
                   matdata, griddata, cTrue, fault>>

\* receivedSensorData(data) when SScanLine::add refuses it: lines 99-146
UpdateCycle(data, maxCycles) ==
    /\ fault = "none"
    /\ ~AddAccepts(m_scanline, data)
    /\ cTrue < maxCycles
    /\ m_vecparticle # <<>>
    /\ \E noise \in [1..Len(m_vecparticle) -> Noises],
          w \in [1..Len(m_vecparticle) -> Weights] :
         \E r \in ROffsets(w) :
            LET upd == UpdateParticles(m_vecparticle, m_scanline, noise, w,
                                       matdata, griddata, 1)
                sel == SampleIndices(w, r)
                outside == OutsideCells(upd.vec, m_scanline)
                c   == [Called("receivedSensorData") EXCEPT !.ret = TRUE,
                                      !.data = data, !.line = m_scanline,
                                      !.weights = w, !.r = r, !.sel = sel,
                                      !.updated = upd.vec, !.outside = outside]
            IN  \* a read outside the likelihood field stops the process or
                \* returns whatever lies there (w is any weight)
                \E stopped \in (IF outside = {} THEN {FALSE} ELSE BOOLEAN) :
                IF stopped \/ \E m \in 1..Len(sel) : sel[m] > Len(m_vecparticle)
                THEN \* or m_vecparticle[i] past the end of the population
                     /\ fault' = IF stopped THEN "extent" ELSE "range"
                     /\ call' = c
                     /\ m_vecparticle' = upd.vec
                     /\ matdata' = upd.mat
                     /\ griddata' = upd.grid
                     /\ UNCHANGED <<rover, cParticles, vecbuf, m_itparticle, m_scanline,
                                    m_vecpose, cTrue>>
                ELSE LET vecNew == ResampledParticles(upd.vec, sel)
                     IN  \E pos \in MaxElement(vecNew) :
                            LET sw == SwapThenMax(vecbuf, pos)
                            IN  /\ m_vecparticle' = vecNew
                                /\ matdata' = CopiedData(upd.mat, vecNew, upd.vec, sel,
                                                         "m_matLikelihood")
                                /\ griddata' = CopiedData(upd.grid, vecNew, upd.vec, sel,
                                                          "m_occgrid")
                                /\ vecbuf' = sw.vecbuf
                                /\ m_itparticle' = sw.it
                                /\ m_vecpose' = TrajectoryAppend(m_vecpose, vecNew[pos].m_pose)
                                /\ m_scanline' = ClearAndSeed(m_scanline, data)
                                /\ call' = c
                                /\ cTrue' = cTrue + 1
                                /\ UNCHANGED <<rover, cParticles, fault>>

\* the poses a read through the end iterator of an empty population can give
PosesPastTheEnd == {[m_pt |-> x, m_fYaw |-> 0] : x \in Ticks}

\* receivedSensorData(data) when SScanLine::add refuses it and the population
\* is empty: lines 99-146.  for_each updates nothing, fStepSize is 0.0/0,
\* m_vecparticle.front() (line 123) and m_itparticle->m_pose (line 142, the
\* iterator being end()) read storage the vector does not have: the process
\* stops there, or the cycle completes with whatever pose was read
UpdateCycleEmpty(data, maxCycles) ==
    /\ fault = "none"
    /\ ~AddAccepts(m_scanline, data)
    /\ cTrue < maxCycles
    /\ m_vecparticle = <<>>
    /\ LET c == [Called("receivedSensorData") EXCEPT !.ret = TRUE,
                                   !.data = data, !.line = m_scanline]
       IN  \/ /\ fault' = "range"
              /\ call' = c
              /\ UNCHANGED <<rover, cParticles, m_vecparticle, vecbuf, m_itparticle,
                             m_scanline, m_vecpose, matdata, griddata, cTrue>>
           \/ \E pose \in PosesPastTheEnd :
                 LET sw == SwapThenMax(vecbuf, 1)
                 IN  /\ m_vecparticle' = <<>>
                     /\ vecbuf' = sw.vecbuf
                     /\ m_itparticle' = sw.it
                     /\ m_vecpose' = TrajectoryAppend(m_vecpose, pose)
                     /\ m_scanline' = ClearAndSeed(m_scanline, data)
                     /\ call' = c
                     /\ cTrue' = cTrue + 1
                     /\ UNCHANGED <<rover, cParticles, matdata, griddata, fault>>

\* the cells cv::line colours with 0: from the origin cell through the cells
\* of the trajectory, in order
TrajectoryCells(vecpose) ==
    UNION {Between(IF k = 1 THEN toGridCoordinates(0)
                   ELSE toGridCoordinates(vecpose[k - 1].m_pt),
                   toGridCoordinates(vecpose[k].m_pt)) : k \in 1..Len(vecpose)}

\* COccupancyGrid::GreyscaleMap(): the handle of the grid's own greyscale map
GreyscaleMap(occgrid) == occgrid

\* ASSERT(m_itparticle!=m_vecparticle.end()) of getMap holds
GetMapPrecondition == m_itparticle # End(vecbuf, m_vecparticle)

\* getMap() with the assertion failing: line 152
GetMapAssert ==
    /\ fault = "none"
    /\ ~GetMapPrecondition
    /\ fault' = "assert"
    /\ call' = Called("getMap")
    /\ UNCHANGED <<rover, cParticles, m_vecparticle, vecbuf, m_itparticle, m_scanline,
                   m_vecpose, matdata, griddata, cTrue>>

\* getMap(): lines 153-160.  cv::Mat m is a second handle to the pixels of the
\* best particle's greyscale map, and cv::line draws into them
GetMap ==
    /\ fault = "none"
    /\ GetMapPrecondition
    /\ m_itparticle.buf = vecbuf
    /\ LET m == GreyscaleMap(m_vecparticle[m_itparticle.pos].m_occgrid)
           pixels == griddata[m] \cup TrajectoryCells(m_vecpose)
       IN  /\ griddata' = [griddata EXCEPT ![m] = pixels]
           /\ call' = [Called("getMap") EXCEPT !.image = pixels]
    /\ UNCHANGED <<rover, cParticles, m_vecparticle, vecbuf, m_itparticle, m_scanline,
                   m_vecpose, matdata, cTrue, fault>>

\* the filter fed with lines of at most MaxLine samples
Next ==
    \/ \E data \in SSensorData : Accept(data, MaxLine)
    \/ \E data \in SSensorData : UpdateCycle(data, MaxCycles)
    \/ GetMapAssert
    \/ GetMap

Spec == Init /\ [][Next]_vars

\* the filter fed with lines of at most MaxScan samples
NextLong ==
    \/ \E data \in SSensorData : Accept(data, MaxScan)
    \/ \E data \in SSensorData : UpdateCycle(data, MaxCyclesLong)
    \/ GetMapAssert
    \/ GetMap

SpecLong == Init /\ [][NextLong]_vars

\* the filter constructed with any particle count, zero too
InitAnyCount == \E n \in 0..MaxParticles : ConstructCount(n)

NextAnyCount ==
    \/ \E data \in SSensorData : Accept(data, MaxScan)
    \/ \E data \in SSensorData : UpdateCycle(data, MaxCyclesLong)
    \/ \E data \in SSensorData : UpdateCycleEmpty(data, MaxCyclesLong)
    \/ GetMapAssert
    \/ GetMap

SpecAnyCount == InitAnyCount /\ [][NextAnyCount]_vars

\* samples whose range is short or reaches FarDistance, beyond the map
SSensorDataFar ==
    [m_nAngle : Angles, m_nDistance : Distances \cup {FarDistance}, m_anEncoderTicks : Ticks]

\* the filter fed with lines of at most MaxLine such samples
NextFar ==
    \/ \E data \in SSensorDataFar : Accept(data, MaxLine)
    \/ \E data \in SSensorDataFar : UpdateCycle(data, MaxCyclesLong)
    \/ GetMapAssert
    \/ GetMap

SpecFar == Init /\ [][NextFar]_vars

\* ------------------------------------------------- SScanLine on its own
\* SScanLine::add(data) called directly: the buffer takes the sample or stays
SScanLineAdd(data) ==
    /\ fault = "none"
    /\ Len(m_scanline) < MaxScan
    /\ m_scanline' = ScanLineAdd(m_scanline, data)
    /\ call' = [Called("add") EXCEPT !.ret = AddAccepts(m_scanline, data),
                                     !.data = data, !.line = m_scanline]
    /\ UNCHANGED <<rover, cParticles, m_vecparticle, vecbuf, m_itparticle, m_vecpose,
                   matdata, griddata, cTrue, fault>>

\* SScanLine::clear(): lines 45-47
SScanLineClear ==
    /\ fault = "none"
    /\ m_scanline' = <<>>
    /\ call' = [Called("clear") EXCEPT !.line = m_scanline]
    /\ UNCHANGED <<rover, cParticles, m_vecparticle, vecbuf, m_itparticle, m_vecpose,
                   matdata, griddata, cTrue, fault>>

NextScanLine ==
    \/ \E data \in SSensorData : SScanLineAdd(data)
    \/ SScanLineClear

SpecScanLine == Init /\ [][NextScanLine]_vars

\* ------------------------------------------- the resampling pass on its own
\* lines 119-135 run once on the weights w with the offset r drawn for them
Resample ==
    /\ fault = "none"
    /\ call.op = "construct"
    /\ \E w \in [1..Len(m_vecparticle) -> Weights] :
         \E r \in ROffsets(w) :
            call' = [Called("resample") EXCEPT !.weights = w, !.r = r,
                                              !.sel = SampleIndices(w, r)]
    /\ UNCHANGED <<rover, cParticles, m_vecparticle, vecbuf, m_itparticle, m_scanline,
                   m_vecpose, matdata, griddata, cTrue, fault>>

SpecResample == Construct(MaxResample) /\ [][Resample]_vars

\* ---------------------------------------------------------- main() running
\* the variables of the filter, which main() does not use
slam == <<cParticles, m_vecparticle, vecbuf, m_itparticle, m_scanline, m_vecpose,
          matdata, griddata, call, cTrue, fault>>

\* SendCommand(reset()) and SendCommand(connect()) enter boost::asio::write:
\* lines 59, 62, 51
MainWrite ==
    /\ rover.pcMain \in {"reset", "connect"}
    /\ \A wr \in rover.writing : wr.by # "main"
    /\ rover' = [rover EXCEPT !.writing = @ \cup {[by |-> "main", cmd |-> rover.pcMain]}]
    /\ UNCHANGED slam

\* boost::asio::write of the main thread returns
MainWritten ==
    /\ \E wr \in rover.writing :
          /\ wr.by = "main"
          /\ rover' = [rover EXCEPT !.writing = @ \ {wr},
                                    !.pcMain = MainThen(rover.pcMain)]
    /\ UNCHANGED slam

\* std::this_thread::sleep_for(1s): line 60
MainSleep ==
    /\ rover.pcMain = "sleep"
    /\ rover' = [rover EXCEPT !.pcMain = MainThen("sleep")]
    /\ UNCHANGED slam

\* std::async without a launch policy: the command loop starts on a thread of
\* its own or is deferred (and then never runs, f.get() not being called):
\* line 67
MainAsync ==
    /\ rover.pcMain = "async"
    /\ \E started \in {"getchar", "deferred"} :
          rover' = [rover EXCEPT !.pcCmd = started, !.pcMain = MainThen("async")]
    /\ UNCHANGED slam

\* while(bRunning): line 82
SensorTest ==
    /\ rover.pcMain = "test"
    /\ rover' = [rover EXCEPT !.pcMain = IF SensorLoopTest(rover.bRunning)
                                         THEN "read" ELSE "join"]
    /\ UNCHANGED slam

\* boost::asio::read returns a sample: line 84
SensorRead ==
    /\ rover.pcMain = "read"
    /\ rover' = [rover EXCEPT !.pcMain = "log"]
    /\ UNCHANGED slam

\* the sample is written to the log: lines 86-97
SensorLog ==
    /\ rover.pcMain = "log"
    /\ rover' = [rover EXCEPT !.pcMain = "test",
                              !.cLogs = Counted(@),
                              !.cLogsStopped = IF rover.bRunning THEN @ ELSE Counted(@)]
    /\ UNCHANGED slam

\* return 0: the destructor of f waits for the command loop when it runs on a
\* thread of its own: line 99
MainReturn ==
    /\ rover.pcMain = "join"
    /\ rover.pcCmd \in {"done", "deferred"}
    /\ rover' = [rover EXCEPT !.pcMain = "done"]
    /\ UNCHANGED slam

\* switch(std::getchar()): line 70
CmdGetchar ==
    /\ rover.pcCmd = "getchar"
    /\ \E key \in Keys :
          rover' = [rover EXCEPT !.key = key,
                                 !.pcCmd = IF KeyCommand(key) = "none"
                                           THEN "getchar" ELSE "send"]
    /\ UNCHANGED slam

\* SendCommand of the command loop enters boost::asio::write: lines 71-75, 51
CmdWrite ==
    /\ rover.pcCmd = "send"
    /\ rover' = [rover EXCEPT !.pcCmd = "writing",
                              !.writing = @ \cup {[by |-> "cmd", cmd |-> KeyCommand(rover.key)]}]
    /\ UNCHANGED slam

\* boost::asio::write of the command loop returns: break, or line 75 goes on
CmdWritten ==
    /\ rover.pcCmd = "writing"
    /\ rover' = [rover EXCEPT !.pcCmd = IF rover.key = "x" THEN "clear" ELSE "getchar",
                              !.writing = {wr \in @ : wr.by # "cmd"}]
    /\ UNCHANGED slam

\* bRunning = false; return;   (line 75)
CmdClear ==
    /\ rover.pcCmd = "clear"
    /\ rover' = [rover EXCEPT !.bRunning = FALSE, !.pcCmd = "done"]
    /\ UNCHANGED slam

\* the steps of the main thread
MainStep ==
    \/ MainWrite
    \/ MainWritten
    \/ MainSleep
    \/ MainAsync
    \/ SensorTest
    \/ SensorRead
    \/ SensorLog
    \/ MainReturn

\* the steps of the command loop
CmdStep ==
    \/ CmdGetchar
    \/ CmdWrite
    \/ CmdWritten
    \/ CmdClear

NextMain == MainStep \/ CmdStep

\* main() does not construct a CParticleSLAM: the variables of the filter keep
\* the values of a filter that is never called
InitMain == ConstructCount(1)

SpecMain == InitMain /\ [][NextMain]_vars

\* the main thread is scheduled again and again, and the controller keeps on
\* streaming samples, so that a pending read returns
SpecMainFair == SpecMain /\ WF_vars(MainStep)

\* ------------------------------------------------------------------ claims
\* direction of the sweep from the bearing a to the bearing b
Sign(a, b) == IF b > a THEN 1 ELSE IF b < a THEN -1 ELSE 0

Bearings(vecscan) == [k \in 1..Len(vecscan) |-> vecscan[k].m_nAngle]

\* the sweep reverses at the bearing new after the buffered bearings b
Reverses(b, new) ==
    IF b = <<>> THEN FALSE
    ELSE /\ Sign(b[1], b[Len(b)]) # 0
         /\ Sign(b[Len(b)], new) # 0
         /\ Sign(b[1], b[Len(b)]) # Sign(b[Len(b)], new)

\* the scan made of a sample that follows the buffer vecscan
NextScan(vecscan, data) ==
    [m_pose |-> [m_pt |-> (IF vecscan = <<>> THEN 0 ELSE vecscan[Len(vecscan)].m_pose.m_pt)
                          + data.m_anEncoderTicks,
                 m_fYaw |-> 0],
     m_nAngle |-> data.m_nAngle, m_nDistance |-> data.m_nDistance]

C2_ScanLineMonotonic ==
    LET b == Bearings(m_scanline)
    IN  \/ \A i, j \in 1..Len(b) : i < j => b[i] <= b[j]
        \/ \A i, j \in 1..Len(b) : i < j => b[i] >= b[j]

\* a line of three samples holding two different bearings
C2_Witness ==
    /\ Len(m_scanline) = 3
    /\ m_scanline[1].m_nAngle # m_scanline[3].m_nAngle
    /\ call.op = "add"

\* C3: right after a call of receivedSensorData that returns true the scan-line
\* buffer holds exactly one sample: the one passed to the call, with the pose
\* made from the zero pose and that sample's odometry.
C3_SeededWithTrigger ==
    (call.op = "receivedSensorData" /\ call.ret /\ fault = "none") =>
        m_scanline = <<[m_pose |-> [m_pt |-> call.data.m_anEncoderTicks, m_fYaw |-> 0],
                        m_nAngle |-> call.data.m_nAngle,
                        m_nDistance |-> call.data.m_nDistance]>>

\* a call has returned true for a sample with odometry, after a line of two
C3_Witness ==
    /\ call.op = "receivedSensorData" /\ call.ret
    /\ Len(call.line) = 2
    /\ call.data.m_anEncoderTicks > 0
    /\ Len(m_scanline) = 1

\* C4: a filter constructed with N >= 1 particles has a population of exactly
\* N particles in every state reached by receivedSensorData calls, also after
\* every resampling swap.
C4_PopulationSizeFixed == Len(m_vecparticle) = cParticles

\* two update cycles have swapped the population of a filter of two particles,
\* the last one having sampled one particle twice
C4_Witness ==
    /\ cParticles = 2 /\ cTrue = 2
    /\ call.op = "receivedSensorData" /\ call.ret
    /\ call.sel = <<2, 2>>

\* C5: the trajectory is append-only and its length equals the number of
\* receivedSensorData calls that have returned true: a call returning true
\* appends exactly one pose, any other call leaves the trajectory as it is, and
\* no entry is changed or removed.
C5_TrajectoryAppendOnly ==
    /\ Len(m_vecpose) = cTrue
    /\ [][LET returnedTrue == call'.op = "receivedSensorData" /\ call'.ret
                              /\ fault' = "none"
          IN  /\ Len(m_vecpose') = cTrue'
              /\ returnedTrue => /\ Len(m_vecpose') = Len(m_vecpose) + 1
                                 /\ SubSeq(m_vecpose', 1, Len(m_vecpose)) = m_vecpose
              /\ ~returnedTrue => m_vecpose' = m_vecpose]_vars

\* a call has returned false after two calls returned true with different poses
C5_Witness ==
    /\ call.op = "receivedSensorData" /\ ~call.ret
    /\ Len(m_vecpose) = 2
    /\ m_vecpose[1] # m_vecpose[2]

\* C6: the precondition of getMap holds if and only if a receivedSensorData
\* call has returned true: getMap before that raises the assertion failure (and
\* only then), and from then on the best-particle iterator designates an
\* element of the storage the population owns after the swap.
C6_GetMapPrecondition ==
    fault # "range" =>
        /\ GetMapPrecondition <=> cTrue >= 1
        /\ cTrue >= 1 => /\ m_itparticle.buf = vecbuf
                         /\ m_itparticle.pos \in 1..Len(m_vecparticle)
        /\ (call.op = "getMap" /\ cTrue = 0) => fault = "assert"
        /\ fault = "assert" => (call.op = "getMap" /\ cTrue = 0)

\* getMap has been called with its precondition holding after two swaps
C6_Witness ==
    /\ call.op = "getMap" /\ fault = "none"
    /\ cTrue = 2

\* getMap has been called before any call returned true
C6_WitnessAssert == call.op = "getMap" /\ fault = "assert"

Identity(n) == [m \in 1..n |-> m]

UpdateCycleDone == call.op = "receivedSensorData" /\ call.ret /\ fault = "none"

\* pose, likelihood field and greyscale map of every particle of a population
Hypotheses(vec, mat, grid) ==
    [k \in 1..Len(vec) |-> [pose |-> vec[k].m_pose,
                            lik  |-> mat[vec[k].m_matLikelihood],
                            grid |-> grid[vec[k].m_occgrid]]]

\* the same for the particles upd, each updated from its own grid in the
\* population vec by the scan line vecscan
UpdatedHypotheses(upd, vec, grid, vecscan) ==
    [k \in 1..Len(upd) |->
        LET black == OccGridUpdateAll(grid[vec[k].m_occgrid], upd[k].m_pose, vecscan, 1)
        IN  [pose |-> upd[k].m_pose,
             lik  |-> [scalar0 |-> FALSE, zero |-> black],
             grid |-> black]]

\* C7: when every weight of an update cycle is zero, receivedSensorData takes a
\* guarded fallback: the cycle is rejected (the population stays as it was
\* before the call), or the resampling is skipped or done uniformly (the
\* population is the updated one, every particle once).
C7_ZeroWeightFallback ==
    [][(call'.op = "receivedSensorData" /\ call'.ret /\ fault' = "none"
        /\ fWeightTotal(call'.weights) = 0) =>
          \/ Hypotheses(m_vecparticle', matdata', griddata')
                = Hypotheses(m_vecparticle, matdata, griddata)
          \/ Hypotheses(m_vecparticle', matdata', griddata')
                = UpdatedHypotheses(call'.updated, m_vecparticle, griddata, m_scanline)]_vars

C9_GetMapPureRead ==
    [][(call'.op = "getMap" /\ fault' = "none") => UNCHANGED estimator]_vars

\* C10: copies of a particle are isolated.  No two particles of the population
\* hold the same likelihood buffer or the same grid, and in an update cycle the
\* grid and the likelihood field every sampled particle hands to its copy are
\* the ones its own update makes from its own grid, whatever the updates of
\* the other particles (other copies of the same particle included) did.
C10_CopiesIsolated ==
    /\ \A j, k \in 1..Len(m_vecparticle) :
          j # k => /\ m_vecparticle[j].m_occgrid # m_vecparticle[k].m_occgrid
                   /\ m_vecparticle[j].m_matLikelihood # m_vecparticle[k].m_matLikelihood
    /\ [][(call'.op = "receivedSensorData" /\ call'.ret /\ fault' = "none") =>
            /\ \A j, k \in 1..Len(m_vecparticle') :
                  j # k => /\ m_vecparticle'[j].m_occgrid # m_vecparticle'[k].m_occgrid
                           /\ m_vecparticle'[j].m_matLikelihood
                                # m_vecparticle'[k].m_matLikelihood
            /\ \A m \in 1..Len(m_vecparticle') :
                  LET i     == call'.sel[m]
                      black == OccGridUpdateAll(griddata[m_vecparticle[i].m_occgrid],
                                                call'.updated[i].m_pose, m_scanline, 1)
                  IN  /\ griddata'[m_vecparticle'[m].m_occgrid] = black
                      /\ matdata'[m_vecparticle'[m].m_matLikelihood]
                            = [scalar0 |-> FALSE, zero |-> black]]_vars

\* two copies of one particle, made by the first cycle, have been updated by
\* the second cycle with different noise, both were sampled again, and their
\* grids now differ
C10_Witness ==
    /\ UpdateCycleDone /\ cTrue = 2
    /\ call.presel = <<1, 1>>
    /\ call.sel = <<1, 2>>
    /\ griddata[m_vecparticle[1].m_occgrid] # griddata[m_vecparticle[2].m_occgrid]
    /\ matdata[m_vecparticle[1].m_matLikelihood] # matdata[m_vecparticle[2].m_matLikelihood]

\* the largest weight of the population vec
MaxWeightOf(vec) ==
    CHOOSE x \in {vec[k].m_fWeight : k \in 1..Len(vec)} :
        \A k \in 1..Len(vec) : vec[k].m_fWeight <= x

\* C11: copying a particle copies its pose and its weight by value: after an
\* update cycle every particle of the resampled population carries the pose
\* and the weight of the just updated particle it was copied from.
C11_CopyKeepsPoseAndWeight ==
    UpdateCycleDone =>
        \A m \in 1..Len(m_vecparticle) :
            /\ m_vecparticle[m].m_pose = call.updated[call.sel[m]].m_pose
            /\ m_vecparticle[m].m_fWeight = call.updated[call.sel[m]].m_fWeight

\* C15: in the resampling pass of an update cycle the index sampled for the
\* target m is non-decreasing in m, and the m-th particle of the new population
\* is a copy of the updated old population's particle at that index: the same
\* pose, and a likelihood field and a grid with the same content.
C15_ForwardPassCopies ==
    [][(call'.op = "receivedSensorData" /\ call'.ret /\ fault' = "none") =>
         /\ Len(call'.sel) = Len(m_vecparticle)
         /\ \A m, n \in 1..Len(call'.sel) : m <= n => call'.sel[m] <= call'.sel[n]
         /\ \A m \in 1..Len(m_vecparticle') :
               Hypotheses(m_vecparticle', matdata', griddata')[m]
                 = UpdatedHypotheses(call'.updated, m_vecparticle, griddata,
                                     m_scanline)[call'.sel[m]]]_vars

\* a cycle on two particles moved to different poses has sampled the second
\* particle for both targets
C15_Witness ==
    /\ UpdateCycleDone
    /\ call.sel = <<2, 2>>
    /\ call.updated[1].m_pose # call.updated[2].m_pose
    /\ m_vecparticle[1].m_pose = call.updated[2].m_pose

\* C16: the pose appended to the trajectory in an update cycle is the pose of a
\* particle whose weight, as computed in that cycle's measurement step, is the
\* maximum over the population.
C16_BestPoseHasMaxWeight ==
    UpdateCycleDone =>
        \E k \in 1..Len(call.updated) :
            /\ call.updated[k].m_fWeight = MaxWeightOf(call.updated)
            /\ call.updated[k].m_pose = m_vecpose[Len(m_vecpose)]

\* C18: every scan line receivedSensorData hands to SParticle::update holds at
\* least two samples and its first and last bearings differ, so translation()
\* and rotation() are never evaluated on an empty line and no completed line has
\* length 1.
C18_CompletedLineHasTwoBearings ==
    (call.op = "receivedSensorData" /\ call.ret) =>
        /\ Len(call.line) >= 2
        /\ call.line[1].m_nAngle # call.line[Len(call.line)].m_nAngle

\* an update cycle has run on a line of three samples of which the first two
\* have the same bearing
C18_Witness ==
    /\ UpdateCycleDone
    /\ Len(call.line) = 3
    /\ call.line[1].m_nAngle = call.line[2].m_nAngle
    /\ Len(call.updated) = cParticles

Copies(sel, k) == Cardinality({m \in 1..Len(sel) : sel[m] = k})

\* the number n of copies is floor(N*wk/W) or ceil(N*wk/W)
FloorOrCeil(n, N, wk, W) == n * W > N * wk - W /\ n * W < N * wk + W

C14_WritesSerialized == Cardinality(rover.writing) <= 1

\* the command loop is writing the stop command while the sensor loop waits
\* in its read, the main thread having written reset and connect before
C14_Witness ==
    /\ rover.writing = {[by |-> "cmd", cmd |-> "stop"]}
    /\ rover.pcMain = "read"
    /\ rover.cLogs >= 1

C12_ZeroCountFailsLoudly ==
    /\ cParticles = 0 => fault = "assert"
    /\ ~(m_vecparticle = <<>> /\ call.op = "receivedSensorData" /\ call.ret)

\* C13: when the end point of a scan, projected from the new pose of a
\* particle, maps to a cell outside the 400 x 400 extent, the sample is clamped
\* or rejected: no cell outside the extent is looked up in the likelihood field
\* or written in the grid, and the update cycle completes.
C13_OutOfExtentRejected ==
    (call.op = "receivedSensorData" /\ call.ret) =>
        /\ call.outside = {}
        /\ fault # "extent"
        /\ \A id \in DOMAIN griddata : griddata[id] \subseteq Cells

====
